---------------------------- MODULE Spec2Model ----------------------------
(***************************************************************************)
(* Model of cellprofiler/cpmath/_lapjv.pyx: the sparse Jonker-Volgenant    *)
(* kernel (reduction_transfer, augmenting_row_reduction, augment, bsearch).*)
(*                                                                         *)
(* Arrays are functions over 0..len-1, as the code indexes them.  A C      *)
(* double is an integer, or one of the three IEEE specials inf, -inf, NaN. *)
(***************************************************************************)
EXTENDS Integers, Sequences, FiniteSets, TLC

VARIABLES
    jj, c, idx, count,      \* the ragged graph: flat columns, flat costs, row start, row length
    x, y, u, v,             \* assignment row->column, column->row, duals
    pc,                     \* position of the running routine
    p_i, k, free,           \* augmenting_row_reduction: the ii array, its cursor, the free list
    i, i1, j1, j2, u1, u2,  \* locals of the routines (function scope in the code)
    iii,                    \* loop index over the input list (reduction_transfer, augment)
    d, pred, col, done,     \* augment: scratch arrays
    low, up, last, umin,    \* augment: partition of col and the current minimum
    min_u,                  \* reduction_transfer: local min_u
    val, ret                \* bsearch: value searched for, value returned

vars == <<jj, c, idx, count, x, y, u, v, pc, p_i, k, free, i, i1, j1, j2, u1, u2,
          iii, d, pred, col, done, low, up, last, umin, min_u, val, ret>>

graph == <<jj, c, idx, count>>
arrLocals == <<p_i, k, free, j2>>
augScratch == <<d, pred, col, done, low, up, last, umin>>
bsVars == <<val, ret>>

-----------------------------------------------------------------------------
(* Bounds of the model *)

N == 3          \* problem size n of the pipeline and reduction-transfer instances
MaxCost == 1    \* costs are drawn from 0..MaxCost
MaxVal == 6     \* bsearch: slices are drawn from the values 0..MaxVal-1

n == N
Rows == 0 .. (N - 1)
Cols == 0 .. (N - 1)

-----------------------------------------------------------------------------
(* IEEE doubles: finite values are small integers; inf stands for +infinity *)

inf == 1000
NegInf == 0 - inf
NaN == inf + inf

FNeg(a) == IF a = NaN THEN NaN ELSE 0 - a

FAdd(a, b) ==
    IF a = NaN \/ b = NaN THEN NaN
    ELSE IF a = inf THEN (IF b = NegInf THEN NaN ELSE inf)
    ELSE IF a = NegInf THEN (IF b = inf THEN NaN ELSE NegInf)
    ELSE IF b = inf \/ b = NegInf THEN b
    ELSE a + b

FSub(a, b) == FAdd(a, FNeg(b))

FLt(a, b) == a # NaN /\ b # NaN /\ a < b

FLe(a, b) == a # NaN /\ b # NaN /\ a <= b

FEq(a, b) == a # NaN /\ b # NaN /\ a = b

-----------------------------------------------------------------------------
(* The ragged graph, built from the column set and the costs of each row as *)
(* the caller lays it out: row i occupies jj[idx[i] .. idx[i]+count[i]-1],  *)
(* columns ascending.                                                       *)

RECURSIVE StartOf(_, _)
StartOf(cs, r) == IF r = 0 THEN 0 ELSE StartOf(cs, r - 1) + Cardinality(cs[r - 1])

KthSmallest(S, q) == CHOOSE e \in S : Cardinality({f \in S : f < e}) = q

RowOfPos(cs, p) == CHOOSE r \in DOMAIN cs : StartOf(cs, r) <= p /\ p < StartOf(cs, r) + Cardinality(cs[r])

FlatColumns(cs) ==
    [p \in 0 .. (StartOf(cs, N) - 1) |->
        LET r == RowOfPos(cs, p) IN KthSmallest(cs[r], p - StartOf(cs, r))]

FlatCosts(cs, cf) ==
    [p \in 0 .. (StartOf(cs, N) - 1) |->
        LET r == RowOfPos(cs, p) IN cf[<<r, KthSmallest(cs[r], p - StartOf(cs, r))>>]]

Perms == {s \in [Rows -> Cols] : \A a, b \in Rows : a # b => s[a] # s[b]}

ColSets == [Rows -> (SUBSET Cols) \ {{}}]

Pairs(cs) == {<<r, q>> \in Rows \X Cols : q \in cs[r]}

\* columns of row r, read from the flat arrays
RowCols(r) == {jj[idx[r] + q] : q \in 0 .. (count[r] - 1)}

\* cost(r, q) of a feasible pair, read from the flat arrays
Cost(r, q) == LET p == CHOOSE p \in 0 .. (count[r] - 1) : jj[idx[r] + p] = q IN c[idx[r] + p]


-----------------------------------------------------------------------------
(* bsearch (lines 464-476): binary search of val in jj[ptr .. ptr+cnt-1].   *)
(* Falling off the end of the cdef int function returns 0.                  *)

RECURSIVE bsearchLoop(_, _, _, _)
bsearchLoop(ptr, target, lo, hi) ==
    IF ~(lo <= hi) THEN 0
    ELSE LET mid == (lo + hi) \div 2 IN
         IF target = jj[ptr + mid] THEN mid
         ELSE IF target > jj[ptr + mid] THEN bsearchLoop(ptr, target, mid + 1, hi)
         ELSE bsearchLoop(ptr, target, lo, mid - 1)

\* bsearch with high starting one short of the last index
bsearchShort(ptr, cnt, target) == bsearchLoop(ptr, target, 0, cnt - 2)

bsearch(ptr, cnt, target) == bsearchLoop(ptr, target, 0, cnt - 1)

-----------------------------------------------------------------------------
(* State after the caller has set up the pipeline: a feasible instance,    *)
(* u = v = 0, x = y = n, every row in the list of unassigned rows.         *)

ScratchInit ==
    /\ d = [q \in Cols |-> 0]
    /\ pred = [q \in Cols |-> 1]
    /\ col = [q \in Cols |-> 0]
    /\ done = [q \in Cols |-> -1]
    /\ low = 0 /\ up = 0 /\ last = 0 /\ umin = 0

LocalsInit ==
    /\ i = n /\ i1 = n /\ j1 = n /\ j2 = n /\ u1 = 0 /\ u2 = 0
    /\ iii = 0 /\ min_u = 0 /\ val = 0 /\ ret = 0

GraphInit(cs, cf) ==
    /\ jj = FlatColumns(cs)
    /\ c = FlatCosts(cs, cf)
    /\ idx = [r \in Rows |-> StartOf(cs, r)]
    /\ count = [r \in Rows |-> Cardinality(cs[r])]

Feasible(cs) == \E s \in Perms : \A r \in Rows : s[r] \in cs[r]

Init ==
    /\ \E cs \in ColSets :
         /\ Feasible(cs)
         /\ \E cf \in [Pairs(cs) -> 0 .. MaxCost] : GraphInit(cs, cf)
    /\ x = [r \in Rows |-> n]
    /\ y = [q \in Cols |-> n]
    /\ u = [r \in Rows |-> 0]
    /\ v = [q \in Cols |-> 0]
    /\ p_i = [q \in Rows |-> q]
    /\ k = 0
    /\ free = <<>>
    /\ pc = "arr"
    /\ ScratchInit
    /\ LocalsInit

-----------------------------------------------------------------------------
(* augmenting_row_reduction (lines 204-243)                                 *)

\* lines 215-225: smallest and second smallest c[i,j] - v[j] of row r
RECURSIVE ArrScan(_, _, _)
ArrScan(r, jjj, s) ==
    IF jjj >= count[r] THEN s
    ELSE LET j == jj[idx[r] + jjj]
             temp == FSub(c[idx[r] + jjj], v[j])
         IN  IF FLt(temp, s.u1)
             THEN ArrScan(r, jjj + 1, [u1 |-> temp, j1 |-> j, u2 |-> s.u1, j2 |-> s.j1])
             ELSE IF FLt(temp, s.u2)
             THEN ArrScan(r, jjj + 1, [s EXCEPT !.u2 = temp, !.j2 = j])
             ELSE ArrScan(r, jjj + 1, s)

\* the test written u1 <= u2
ArrStrictOrTie(a, b) == FLe(a, b)

\* lines 228 and 234: the test u1 < u2
ArrStrict(a, b) == FLt(a, b)

\* one iteration of the while loop, lines 206-241
ArrRow ==
    /\ pc = "arr"
    /\ k < n
    /\ LET r == p_i[k]
           s == ArrScan(r, 0, [u1 |-> inf, j1 |-> j1, u2 |-> inf, j2 |-> j2])
           strict == ArrStrict(s.u1, s.u2)
       IN  /\ i' = r
           /\ u1' = s.u1
           /\ u2' = s.u2
           /\ j2' = s.j2
           /\ IF s.j1 = n \/ (~strict /\ y[s.j1] # n /\ s.j2 = n)
              THEN \* j1 or j2 is read before any assignment to it
                   /\ pc' = "ub"
                   /\ UNCHANGED <<x, y, v, p_i, k, free, i1, j1>>
              ELSE LET v1 == IF strict
                             THEN [v EXCEPT ![s.j1] = FAdd(FSub(v[s.j1], s.u2), s.u1)]
                             ELSE v
                       jt == IF ~strict /\ y[s.j1] # n THEN s.j2 ELSE s.j1
                       it == y[jt]
                   IN  /\ v' = v1
                       /\ j1' = jt
                       /\ i1' = it
                       /\ IF it # n /\ strict
                          THEN k' = k /\ p_i' = [p_i EXCEPT ![k] = it]
                          ELSE k' = k + 1 /\ p_i' = p_i
                       /\ free' = IF it # n /\ ~strict THEN Append(free, it) ELSE free
                       /\ x' = [x EXCEPT ![r] = jt]
                       /\ y' = [y EXCEPT ![jt] = r]
                       /\ pc' = "arr"
    /\ UNCHANGED <<graph, u, iii, augScratch, min_u, bsVars>>

\* lines 242-243: the free list is returned; the caller hands it to augment
ArrReturn ==
    /\ pc = "arr"
    /\ k >= n
    /\ pc' = "aug"
    /\ iii' = 0
    /\ UNCHANGED <<graph, x, y, u, v, arrLocals, i, i1, j1, u1, u2, augScratch, min_u, bsVars>>


-----------------------------------------------------------------------------
(* augment (lines 352-453)                                                  *)

\* lines 361-365: d, col and pred of the columns of row r
RECURSIVE AugSeed(_, _, _)
AugSeed(r, jjj, s) ==
    IF jjj >= count[r] THEN s
    ELSE LET j == jj[idx[r] + jjj] IN
         AugSeed(r, jjj + 1,
                 [d |-> [s.d EXCEPT ![j] = FSub(c[idx[r] + jjj], v[j])],
                  col |-> [s.col EXCEPT ![jjj] = j],
                  pred |-> [s.pred EXCEPT ![j] = r]])

\* lines 353-368: the next free row i*, its distances, an empty frontier
AugStart ==
    /\ pc = "aug"
    /\ iii < Len(free)
    /\ LET r == free[iii + 1]
           s == AugSeed(r, 0, [d |-> d, col |-> col, pred |-> pred])
       IN  /\ i' = r
           /\ d' = s.d
           /\ col' = s.col
           /\ pred' = s.pred
    /\ low' = 0
    /\ up' = 0
    /\ pc' = "top"
    /\ UNCHANGED <<graph, x, y, u, v, arrLocals, i1, j1, u1, u2, iii, done, last, umin,
                   min_u, bsVars>>

\* lines 379-389: the minimum d[j] over the columns of row i* not yet done,
\* the columns at that minimum moved to col[low .. up-1]
RECURSIVE ScanMin(_, _)
ScanMin(jjj, s) ==
    IF jjj >= count[i] THEN s
    ELSE LET j == jj[idx[i] + jjj]
             temp == d[j]
         IN  IF done[j] = i \/ ~FLe(temp, s.umin) THEN ScanMin(jjj + 1, s)
             ELSE LET lower == FLt(temp, s.umin)
                      at == IF lower THEN low ELSE s.up
                  IN  IF at >= n THEN [s EXCEPT !.oob = TRUE]
                      ELSE ScanMin(jjj + 1,
                                   [s EXCEPT !.up = at + 1,
                                             !.umin = IF lower THEN temp ELSE s.umin,
                                             !.col = [s.col EXCEPT ![at] = j]])

\* lines 390-397: the frontier is walked until an unassigned column shows;
\* the columns before it are marked done for row i*
RECURSIVE ScanMark(_, _, _, _)
ScanMark(jjj, upto, cl, s) ==
    IF jjj >= upto THEN s
    ELSE LET j == cl[jjj] IN
         IF y[j] = n THEN [s EXCEPT !.j1 = j]
         ELSE ScanMark(jjj + 1, upto, cl, [s EXCEPT !.done = [s.done EXCEPT ![j] = i]])

\* lines 370-399: the frontier is empty
AugScan ==
    /\ pc = "top"
    /\ up = low
    /\ last' = low
    /\ LET m == ScanMin(0, [up |-> up, umin |-> inf, col |-> col, oob |-> FALSE])
           f == ScanMark(low, m.up, m.col, [done |-> done, j1 |-> n])
       IN  /\ umin' = m.umin
           /\ col' = m.col
           /\ up' = m.up
           /\ done' = f.done
           /\ j1' = f.j1
           /\ pc' = IF m.oob THEN "ub" ELSE IF f.j1 < n THEN "found" ELSE "relax"
    /\ UNCHANGED <<graph, x, y, u, v, arrLocals, i, i1, u1, u2, iii, d, pred, low, min_u, bsVars>>

\* lines 415-431: the columns of row r (the owner of the scanned column) are relaxed
RECURSIVE Relax(_, _, _, _)
Relax(r, w, jjj, s) ==
    IF jjj >= count[r] THEN s
    ELSE LET j == jj[idx[r] + jjj]
             h == FSub(FSub(c[idx[r] + jjj], v[j]), w)
         IN  IF s.done[j] = i \/ ~FLt(h, s.d[j]) THEN Relax(r, w, jjj + 1, s)
             ELSE LET p == [s EXCEPT !.pred = [s.pred EXCEPT ![j] = r]] IN
                  IF ~FEq(h, umin)
                  THEN Relax(r, w, jjj + 1, [p EXCEPT !.d = [p.d EXCEPT ![j] = h]])
                  ELSE IF y[j] = n THEN [p EXCEPT !.j1 = j]
                  ELSE IF p.up >= n THEN [p EXCEPT !.oob = TRUE]
                  ELSE Relax(r, w, jjj + 1,
                             [p EXCEPT !.col = [p.col EXCEPT ![p.up] = j],
                                       !.done = [p.done EXCEPT ![j] = i],
                                       !.up = p.up + 1,
                                       !.d = [p.d EXCEPT ![j] = h]])

\* lines 406-433: col[low] is scanned.  Reading col[low] past the array, or
\* idx[n] for an unowned column, is an access outside the arrays: the run has
\* no defined result from there on (pc = "ub").
AugRelax ==
    /\ \/ pc = "relax"
       \/ pc = "top" /\ up # low
    /\ IF low >= n \/ y[col[low]] = n
       THEN /\ pc' = "ub"
            /\ UNCHANGED <<i1, j1, u1, d, pred, col, done, low, up>>
       ELSE LET jc == col[low]
                r == y[jc]
                jidx == bsearch(idx[r], count[r], jc)
                w == FSub(FSub(c[idx[r] + jidx], v[jc]), umin)
                s == Relax(r, w, 0, [d |-> d, pred |-> pred, col |-> col, done |-> done,
                                     up |-> up, j1 |-> n, oob |-> FALSE])
            IN  /\ low' = low + 1
                /\ i1' = r
                /\ u1' = w
                /\ d' = s.d
                /\ pred' = s.pred
                /\ col' = s.col
                /\ done' = s.done
                /\ up' = s.up
                /\ j1' = s.j1
                /\ pc' = IF s.oob THEN "ub" ELSE IF s.j1 # n THEN "found" ELSE "top"
    /\ UNCHANGED <<graph, x, y, u, v, arrLocals, i, u2, iii, last, umin, min_u, bsVars>>

\* lines 436-439: price update of the columns col[0 .. last-1]
RECURSIVE PriceUpdate(_, _)
PriceUpdate(jjj, vv) ==
    IF jjj >= last THEN vv
    ELSE LET j == col[jjj] IN
         PriceUpdate(jjj + 1, [vv EXCEPT ![j] = FAdd(vv[j], FSub(d[j], umin))])

\* lines 440-445: the path is reversed along pred until row i* is met; more
\* than n+1 rounds means the walk cycles and never meets i*
RECURSIVE Reverse(_, _, _)
Reverse(jc, s, fuel) ==
    IF fuel = 0 \/ jc = n THEN [s EXCEPT !.ok = FALSE]
    ELSE LET r == pred[jc]
             t == [x |-> [s.x EXCEPT ![r] = jc], y |-> [s.y EXCEPT ![jc] = r],
                   i1 |-> r, j1 |-> s.x[r], ok |-> TRUE]
         IN  IF r = i THEN t ELSE Reverse(s.x[r], t, fuel - 1)

\* lines 435-445: an unassigned column j1 was found
AugPath ==
    /\ pc = "found"
    /\ LET s == Reverse(j1, [x |-> x, y |-> y, i1 |-> i1, j1 |-> j1, ok |-> TRUE], n + 1)
       IN  /\ v' = PriceUpdate(0, v)
           /\ x' = s.x
           /\ y' = s.y
           /\ i1' = s.i1
           /\ j1' = s.j1
           /\ pc' = IF s.ok THEN "aug" ELSE "ub"
    /\ iii' = iii + 1
    /\ UNCHANGED <<graph, u, arrLocals, i, u1, u2, augScratch, min_u, bsVars>>

\* lines 449-453: u is recomputed for every row; x[i] = n makes v[n] an index
\* outside v
AugRecompute ==
    /\ pc = "aug"
    /\ iii >= Len(free)
    /\ IF \E r \in Rows : x[r] = n
       THEN pc' = "ub" /\ u' = u
       ELSE /\ u' = [r \in Rows |->
                       FSub(c[idx[r] + bsearch(idx[r], count[r], x[r])], v[x[r]])]
            /\ pc' = "done"
    /\ UNCHANGED <<graph, x, y, v, arrLocals, i, i1, j1, u1, u2, iii, augScratch, min_u, bsVars>>

Next == ArrRow \/ ArrReturn \/ AugStart \/ AugScan \/ AugRelax \/ AugPath \/ AugRecompute

Spec == Init /\ [][Next]_vars

-----------------------------------------------------------------------------
(* reduction_transfer (lines 110-125)                                       *)

\* line 118: j_temp = p_j[j_idx]; p_j is the start of the whole column array
RtColumn(r, j_idx) == jj[j_idx]

\* lines 117-123: min_u over the entries whose column is not jx
RECURSIVE RtMin(_, _, _, _)
RtMin(r, jx, j_idx, m) ==
    IF j_idx >= count[r] THEN m
    ELSE LET j_temp == RtColumn(r, j_idx)
             u_temp == FSub(c[idx[r] + j_idx], v[j_temp])
         IN  IF j_temp # jx /\ FLt(u_temp, m)
             THEN RtMin(r, jx, j_idx + 1, u_temp)
             ELSE RtMin(r, jx, j_idx + 1, m)

\* the caller hands over assigned rows: a feasible instance, x a perfect
\* matching over feasible pairs, u = v = 0, every row in ii
InitRT ==
    /\ \E cs \in ColSets :
         \E s \in Perms :
            /\ \A r \in Rows : s[r] \in cs[r]
            /\ x = s
            /\ y = [q \in Cols |-> CHOOSE r \in Rows : s[r] = q]
            /\ \E cf \in [Pairs(cs) -> 0 .. MaxCost] : GraphInit(cs, cf)
    /\ u = [r \in Rows |-> 0]
    /\ v = [q \in Cols |-> 0]
    /\ p_i = [q \in Rows |-> q]
    /\ k = 0
    /\ free = <<>>
    /\ pc = "rt"
    /\ ScratchInit
    /\ LocalsInit

\* one iteration of the for loop, lines 111-125
RtRow ==
    /\ pc = "rt"
    /\ iii < n
    /\ LET r == p_i[iii]
           jx == x[r]
           m == RtMin(r, jx, 0, inf)
       IN  /\ i' = r
           /\ j1' = jx
           /\ min_u' = m
           /\ v' = [v EXCEPT ![jx] = FSub(v[jx], FSub(m, u[r]))]
           /\ u' = [u EXCEPT ![r] = m]
    /\ iii' = iii + 1
    /\ pc' = "rt"
    /\ UNCHANGED <<graph, x, y, arrLocals, i1, u1, u2, augScratch, bsVars>>

\* the loop is over: reduction_transfer returns
RtReturn ==
    /\ pc = "rt"
    /\ iii >= n
    /\ pc' = "rt_done"
    /\ UNCHANGED <<graph, x, y, u, v, arrLocals, i, i1, j1, u1, u2, iii, augScratch,
                   min_u, bsVars>>

NextRT == RtRow \/ RtReturn

SpecRT == InitRT /\ [][NextRT]_vars

-----------------------------------------------------------------------------
(* bsearch on its own: a strictly ascending slice and a value that is in it *)

InitBS ==
    /\ \E S \in (SUBSET (0 .. (MaxVal - 1))) \ {{}} :
         /\ jj = [p \in 0 .. (Cardinality(S) - 1) |-> KthSmallest(S, p)]
         /\ c = [p \in 0 .. (Cardinality(S) - 1) |-> 0]
         /\ idx = [r \in {0} |-> 0]
         /\ count = [r \in {0} |-> Cardinality(S)]
         /\ val \in S
    /\ ret = 0
    /\ x = [r \in Rows |-> n]
    /\ y = [q \in Cols |-> n]
    /\ u = [r \in Rows |-> 0]
    /\ v = [q \in Cols |-> 0]
    /\ p_i = [q \in Rows |-> q]
    /\ k = 0
    /\ free = <<>>
    /\ pc = "bs"
    /\ ScratchInit
    /\ i = n /\ i1 = n /\ j1 = n /\ j2 = n /\ u1 = 0 /\ u2 = 0 /\ iii = 0 /\ min_u = 0

\* a call bsearch(ptr, count, val) on the slice
BsearchCall ==
    /\ pc = "bs"
    /\ ret' = bsearch(idx[0], count[0], val)
    /\ pc' = "bs_done"
    /\ UNCHANGED <<graph, x, y, u, v, arrLocals, i, i1, j1, u1, u2, iii, augScratch, min_u, val>>

NextBS == BsearchCall

SpecBS == InitBS /\ [][NextBS]_vars

-----------------------------------------------------------------------------
(* Properties                                                               *)

RECURSIVE SumCost(_, _)
SumCost(s, r) == IF r = n THEN 0 ELSE Cost(r, s[r]) + SumCost(s, r + 1)

FeasiblePerms == {s \in Perms : \A r \in Rows : s[r] \in RowCols(r)}

\* the minimum total cost over all perfect matchings that use feasible pairs
MinCost ==
    LET best == CHOOSE s \in FeasiblePerms :
                    \A t \in FeasiblePerms : SumCost(s, 0) <= SumCost(t, 0)
    IN  SumCost(best, 0)

\* the run of the pipeline has ended: augment returned, or it left the arrays
Ended == pc \in {"done", "ub"}

PerfectMatching ==
    /\ \A r \in Rows : x[r] # n /\ x[r] \in RowCols(r) /\ y[x[r]] = r
    /\ \A q \in Cols : y[q] # n /\ x[y[q]] = q

\* C1: on every feasible instance the pipeline (augmenting_row_reduction over
\* all rows, then augment over the returned free list) ends with a total cost
\* equal to the minimum over all feasible perfect matchings.
C1_Optimal == Ended => (pc = "done" /\ PerfectMatching /\ SumCost(x, 0) = MinCost)

\* C2: on every feasible instance the pipeline ends with no sentinel in x or
\* y, every x[i] a feasible column of row i, and x and y inverse of each other.
C2_PerfectMatching == Ended => (pc = "done" /\ PerfectMatching)

\* C3: on every feasible instance, after augment has recomputed u, every
\* feasible pair has u[i] + v[j] <= cost(i, j), with equality for j = x[i].
C3_Slackness ==
    pc = "done" =>
        \A r \in Rows :
            /\ \A q \in RowCols(r) : FLe(FAdd(u[r], v[q]), Cost(r, q))
            /\ x[r] \in RowCols(r) /\ FEq(FAdd(u[r], v[x[r]]), Cost(r, x[r]))

\* C4: for every free row handed to augment the search finds an unassigned
\* column, the path is reversed and augment returns: a run of the pipeline
\* that has ended has ended at the return of augment.
C4_AugmentReturns == Ended => pc = "done"

\* C9: when augmenting_row_reduction returns, every row with x[i] # n has
\* y[x[i]] = i, the rows on the returned free list included.
C9_ConsistentAtReturn ==
    (pc = "aug" /\ iii = 0) => \A r \in Rows : x[r] # n => y[x[r]] = r

\* C10: every bsearch call of augment has its target in the slice: (a) in the
\* relaxation step the column col[low] is in the frontier (low < up), is owned
\* by a real row and is a column of that row; (b) in the final recomputation
\* of u every x[i] is a real column of row i.
C10_BsearchMembership ==
    /\ (pc = "relax" \/ (pc = "top" /\ up # low)) =>
          /\ low < up
          /\ low < n
          /\ y[col[low]] # n
          /\ col[low] \in RowCols(y[col[low]])
    /\ (pc = "aug" /\ iii >= Len(free)) =>
          \A r \in Rows : x[r] # n /\ x[r] \in RowCols(r)

\* a step of the while loop of augmenting_row_reduction
ArrStep == pc = "arr" /\ k < n

\* C6: a displaced real row i1 is (a) with u1 < u2 put at the cursor of the
\* queue, processed by the very next iteration and not put on the free list;
\* (b) with u1 = u2 appended to the free list, taken out of the queue and
\* never processed again.  The free list grows by nothing else.
C6_DisplacedRow ==
    [][ArrStep =>
          /\ (i1 # n /\ FLt(u1, u2)) => i' = i1
          /\ \A q \in 1 .. Len(free') : free'[q] # i'
          /\ pc' = "arr" =>
                /\ (i1' # n /\ FLt(u1', u2')) =>
                      free' = free /\ k' < n /\ p_i'[k'] = i1'
                /\ (i1' # n /\ FEq(u1', u2')) =>
                      /\ free' = Append(free, i1')
                      /\ k' = k + 1
                      /\ \A q \in k' .. (n - 1) : p_i'[q] # i1'
                /\ i1' = n => free' = free /\ k' = k + 1
                /\ FLe(u1', u2')
       ]_vars

\* C6 witness: a row was displaced on a tie and is on the free list, after an
\* earlier displaced row had been put back into the queue
C6_Witness ==
    /\ pc = "arr"
    /\ i1 # n /\ FEq(u1, u2)
    /\ Len(free) >= 1 /\ free[Len(free)] = i1
    /\ \E q \in Rows : p_i[q] # q

\* C5: reduction_transfer leaves, for a row i with at least two feasible
\* columns, u[i] = uMin, the minimum of cost(i, j) - v[j] over the columns
\* j # x[i] of row i's own slice, and lowers v[x[i]] by uMin - old u[i].
UMin(r) ==
    LET S == {FSub(Cost(r, q), v[q]) : q \in RowCols(r) \ {x[r]}}
    IN  CHOOSE m \in S : \A e \in S : m <= e

C5_ReductionTransfer ==
    [][(pc = "rt" /\ iii < n /\ count[p_i[iii]] >= 2) =>
          LET r == p_i[iii] IN
          /\ u'[r] = UMin(r)
          /\ v'[x[r]] = FSub(v[x[r]], FSub(UMin(r), u[r]))
          /\ \A q \in Cols \ {x[r]} : v'[q] = v[q]
       ]_vars

\* C8: reduction_transfer on a row whose only feasible column is x[i] leaves
\* u[i] and every v[j] as they were.
C8_SingleColumnNoOp ==
    [][(pc = "rt" /\ iii < n /\ count[p_i[iii]] = 1) => (u' = u /\ v' = v)]_vars

\* C7: for a strictly ascending slice and a value in it, bsearch returns the
\* index k, 0 <= k < count, with ptr[k] = val.
C7_BsearchFinds ==
    pc = "bs_done" => (0 <= ret /\ ret < count[0] /\ jj[idx[0] + ret] = val)

\* C7 witness: the value is found after the first probe, right of the middle
C7_Witness ==
    pc = "bs_done" /\ count[0] >= 4 /\ ret = count[0] - 1 /\ jj[ret] = val
=============================================================================
